---- MODULE Spec2Model ----
(***************************************************************************)
(* A model of the AFRIMET stations dashboard (src/src/App.jsx) and of the  *)
(* earlier version of the same component (src/unnamed/part_000).           *)
(*                                                                         *)
(* JavaScript values are tagged records [k, n, s]: k is the kind of the    *)
(* value, n its number (kind "number"), s its characters (kind "string",   *)
(* a sequence of one-character strings).  NaN has its own kind; its        *)
(* typeof is "number", as in JavaScript.                                   *)
(***************************************************************************)
EXTENDS Integers, Sequences, FiniteSets, TLC

VARIABLES
    url,        \* whether import.meta.env.VITE_STATIONS_URL is set
    fetching,   \* the fetch of the effect is in flight
    nowYear,    \* what new Date().getUTCFullYear() reads
    data,       \* useState: null, {error}, or the feed
    year,       \* useState: null, then j.default_year or the selected year
    page,       \* useState: "reported" | "stations"
    searchBy,   \* useState: "all" | "station" | "name" | "country"
    q,          \* useState: the search text
    probe       \* the classifier called on its own: station, year, results

vars == <<url, fetching, nowYear, data, year, page, searchBy, q, probe>>

ctl == <<url, fetching, nowYear, data, year, page, searchBy, q>>

---------------------------------------------------------------------------
(* JavaScript values *)

Undefined == [k |-> "undefined", n |-> 0, s |-> <<>>]
Null == [k |-> "null", n |-> 0, s |-> <<>>]
NaN == [k |-> "nan", n |-> 0, s |-> <<>>]
Num(x) == [k |-> "number", n |-> x, s |-> <<>>]
Str(chars) == [k |-> "string", n |-> 0, s |-> chars]

\* typeof v
TypeOf(v) ==
    CASE v.k \in {"number", "nan"} -> "number"
      [] v.k = "string" -> "string"
      [] v.k = "undefined" -> "undefined"
      [] OTHER -> "object"

\* !v
Falsy(v) ==
    \/ v.k \in {"undefined", "null", "nan"}
    \/ v.k = "number" /\ v.n = 0
    \/ v.k = "string" /\ v.s = <<>>

\* a ?? b
Nullish(a, b) == IF a.k \in {"undefined", "null"} THEN b ELSE a

\* a || b
OrElse(a, b) == IF Falsy(a) THEN b ELSE a

WhiteSpace == {" "}

Digits == <<"0", "1", "2", "3", "4", "5", "6", "7", "8", "9">>

IsDigit(c) == \E d \in 1..10 : Digits[d] = c

DigitValue(c) == (CHOOSE d \in 1..10 : Digits[d] = c) - 1

RECURSIVE TrimStart(_)
TrimStart(chars) ==
    IF chars # <<>> /\ Head(chars) \in WhiteSpace
    THEN TrimStart(Tail(chars))
    ELSE chars

RECURSIVE TrimEnd(_)
TrimEnd(chars) ==
    IF chars # <<>> /\ chars[Len(chars)] \in WhiteSpace
    THEN TrimEnd(SubSeq(chars, 1, Len(chars) - 1))
    ELSE chars

\* String.prototype.trim
Trim(chars) == TrimEnd(TrimStart(chars))

RECURSIVE DecimalValue(_)
DecimalValue(chars) ==
    IF chars = <<>> THEN 0
    ELSE 10 * DecimalValue(SubSeq(chars, 1, Len(chars) - 1))
         + DigitValue(chars[Len(chars)])

\* ToNumber of the relational operators: a string of decimal digits is its
\* number, the empty string 0, any other string here NaN
ToNumber(v) ==
    CASE v.k = "number" -> v
      [] v.k = "null" -> Num(0)
      [] v.k = "string" ->
            LET t == Trim(v.s)
            IN  IF \A i \in 1..Len(t) : IsDigit(t[i])
                THEN Num(DecimalValue(t))
                ELSE NaN
      [] OTHER -> NaN

\* a <= b
LessEq(a, b) ==
    LET x == ToNumber(a)
        y == ToNumber(b)
    IN  x.k = "number" /\ y.k = "number" /\ x.n <= y.n

LowerCaseOf(c) ==
    CASE c = "A" -> "a"
      [] c = "G" -> "g"
      [] c = "H" -> "h"
      [] c = "K" -> "k"
      [] c = "X" -> "x"
      [] OTHER -> c

\* String.prototype.toLowerCase
ToLowerCase(chars) == [i \in 1..Len(chars) |-> LowerCaseOf(chars[i])]

\* String.prototype.includes
Includes(chars, part) ==
    \E i \in 0..(Len(chars) - Len(part)) :
        \A j \in 1..Len(part) : chars[i + j] = part[j]

---------------------------------------------------------------------------
(* The classifier *)

isActive(st, yr) ==
    LET by == IF TypeOf(st.begin_year) = "number" THEN st.begin_year ELSE Num(-9999)
        ey == IF TypeOf(st.end_year) = "number" THEN st.end_year ELSE Num(9999)
    IN  LessEq(by, yr) /\ LessEq(yr, ey)

isActive_part_000(st, yr) ==
    LET by == Nullish(st.begin_year, Num(-9999))
        ey == Nullish(st.end_year, Num(9999))
    IN  LessEq(by, yr) /\ LessEq(yr, ey)

RECURSIVE activeCountForYear_lt(_, _)
activeCountForYear_lt(stns, y) ==
    IF stns = <<>> THEN 0
    ELSE LET s == Head(stns)
             by == IF TypeOf(s.begin_year) = "number" THEN s.begin_year ELSE Num(-9999)
             ey == IF TypeOf(s.end_year) = "number" THEN s.end_year ELSE Num(9999)
         IN  (IF LessEq(by, Num(y)) /\ LessEq(Num(y), ey) /\ Num(y) # ey THEN 1 ELSE 0)
             + activeCountForYear_lt(Tail(stns), y)

RECURSIVE activeCountForYear(_, _)
activeCountForYear(stns, y) ==
    IF stns = <<>> THEN 0
    ELSE LET s == Head(stns)
             by == IF TypeOf(s.begin_year) = "number" THEN s.begin_year ELSE Num(-9999)
             ey == IF TypeOf(s.end_year) = "number" THEN s.end_year ELSE Num(9999)
         IN  (IF LessEq(by, Num(y)) /\ LessEq(Num(y), ey) THEN 1 ELSE 0)
             + activeCountForYear(Tail(stns), y)

---------------------------------------------------------------------------
(* The feed and the bounds of the model *)

MaxStations == 2

Station(id, nm, ctry, by, ey) ==
    [station_id |-> id, name |-> nm, country |-> ctry,
     begin_year |-> by, end_year |-> ey]

\* the station records a feed is made of
StationPool ==
    { Station(Str(<<"X", "0", "1">>), Str(<<"A", "c", "c", "r", "a">>),
              Str(<<"G", "h", "a", "n", "a">>), Num(1901), Num(1902)),
      Station(Str(<<"G", "H", "2">>), Undefined, Str(<<>>),
              Undefined, Num(1900)),
      Station(Str(<<"k", "3">>), Str(<<"a", "g", "h">>), Null,
              Num(0), Null) }

StationLists == UNION { [1..n -> StationPool] : n \in 0..MaxStations }

DefaultYears == {Undefined, Num(1899), Num(1901)}

\* the readings of the clock, kept as near startYear as the feed's years are:
\* the series then has a handful of entries, and no step of the code looks
\* at how large the year is
NowYears == {1902, 1903}

Feeds ==
    { [k |-> "feed", default_year |-> d, stations |-> l] :
        d \in DefaultYears, l \in StationLists }

\* what is typed into the search box
Queries ==
    { <<>>, <<" ">>, <<"g", "h">>, <<" ", "G", "H">>, <<"k">>, <<"z", "z">> }

SearchBys == {"all", "station", "name", "country"}

Pages == {"reported", "stations"}

NoData == [k |-> "null", default_year |-> Undefined, stations |-> <<>>]

ErrorData == [k |-> "error", default_year |-> Undefined, stations |-> <<>>]

---------------------------------------------------------------------------
(* What the component derives from its state on every render *)

\* data?.stations ?? []
stations == IF data.k = "feed" THEN data.stations ELSE <<>>

RECURSIVE SortedSeq(_)
SortedSeq(S) ==
    IF S = {} THEN <<>>
    ELSE LET m == CHOOSE x \in S : \A z \in S : x <= z
         IN  <<m>> \o SortedSeq(S \ {m})

years ==
    IF Len(stations) = 0 THEN <<>>
    ELSE SortedSeq(
           { stations[i].begin_year.n :
               i \in { i \in 1..Len(stations) : TypeOf(stations[i].begin_year) = "number" } }
           \cup
           { stations[i].end_year.n :
               i \in { i \in 1..Len(stations) : TypeOf(stations[i].end_year) = "number" } })

\* the predicate of stations.filter, for the trimmed lower-cased query qq
matches(s, qq, by) ==
    LET station == ToLowerCase(OrElse(s.station_id, Str(<<>>)).s)
        name == ToLowerCase(OrElse(s.name, Str(<<>>)).s)
        country == ToLowerCase(OrElse(s.country, Str(<<>>)).s)
    IN  CASE by = "station" -> Includes(station, qq)
          [] by = "name" -> Includes(name, qq)
          [] by = "country" -> Includes(country, qq)
          [] OTHER -> Includes(station, qq) \/ Includes(name, qq)
                      \/ Includes(country, qq)

filteredOf_dropLast(stns, query, by) ==
    LET qq == ToLowerCase(Trim(query))
        Test(s) == matches(s, qq, by)
        kept == SelectSeq(stns, Test)
    IN  IF qq = <<>> THEN stns
        ELSE SubSeq(kept, 1, Len(kept) - 1)

filteredOf_untrimmed(stns, query, by) ==
    LET qq == ToLowerCase(query)
        Test(s) == matches(s, qq, by)
    IN  IF qq = <<>> THEN stns ELSE SelectSeq(stns, Test)

filteredOf_allFields(stns, query, by) ==
    LET qq == ToLowerCase(Trim(query))
        Test(s) == matches(s, qq, "all")
    IN  IF qq = <<>> THEN stns ELSE SelectSeq(stns, Test)

\* the filtered memo, as a function of its dependencies
filteredOf(stns, query, by) ==
    LET qq == ToLowerCase(Trim(query))
        Test(s) == matches(s, qq, by)
    IN  IF qq = <<>> THEN stns ELSE SelectSeq(stns, Test)

filtered == filteredOf(stations, q, searchBy)

\* the filtered memo of the earlier version: no search scope
filtered_part_000 ==
    LET qq == ToLowerCase(Trim(q))
        Test(s) ==
            \/ qq = <<>>
            \/ Includes(ToLowerCase(OrElse(s.station_id, Str(<<>>)).s), qq)
            \/ Includes(ToLowerCase(OrElse(s.name, Str(<<>>)).s), qq)
            \/ Includes(ToLowerCase(OrElse(s.country, Str(<<>>)).s), qq)
    IN  SelectSeq(stations, Test)

counts ==
    IF Len(filtered) = 0 \/ Falsy(year)
    THEN [active |-> 0, inactive |-> 0, total |-> Len(filtered)]
    ELSE LET a == Cardinality({ i \in 1..Len(filtered) : isActive(filtered[i], year) })
         IN  [active |-> a, inactive |-> Len(filtered) - a, total |-> Len(filtered)]

startYear == 1900

stationActivitySeries_ofFiltered ==
    IF Len(filtered) = 0 THEN <<>>
    ELSE LET endYear == ToNumber(Nullish(data.default_year, Num(nowYear)))
             total == Len(filtered)
             n == IF endYear.k = "number" /\ startYear <= endYear.n
                  THEN endYear.n - startYear + 1
                  ELSE 0
         IN  [ i \in 1..n |->
                 LET y == startYear + i - 1
                     active == activeCountForYear(filtered, y)
                 IN  [year |-> y, active |-> active,
                      inactive |-> total - active, total |-> total] ]

stationActivitySeries ==
    IF Len(stations) = 0 THEN <<>>
    ELSE LET endYear == ToNumber(Nullish(data.default_year, Num(nowYear)))
             total == Len(stations)
             n == IF endYear.k = "number" /\ startYear <= endYear.n
                  THEN endYear.n - startYear + 1
                  ELSE 0
         IN  [ i \in 1..n |->
                 LET y == startYear + i - 1
                     active == activeCountForYear(stations, y)
                 IN  [year |-> y, active |-> active,
                      inactive |-> total - active, total |-> total] ]

\* the table's rows: filtered.slice(0, 200)
DisplayCap == 200

rows == SubSeq(filtered, 1, IF Len(filtered) < DisplayCap THEN Len(filtered) ELSE DisplayCap)

\* the component renders its pages: the url is set, the feed is loaded
Rendered == url /\ data.k = "feed"

---------------------------------------------------------------------------
(* The component *)

NoProbe == [called |-> FALSE, st |-> Station(Undefined, Undefined, Undefined, Undefined, Undefined),
            year |-> 0, active |-> FALSE, active_part_000 |-> FALSE, count |-> 0]

InitApp ==
    /\ url \in BOOLEAN
    /\ fetching = url
    /\ nowYear \in NowYears
    /\ data = NoData
    /\ year = Null
    /\ page = "reported"
    /\ searchBy = "all"
    /\ q = <<>>

Init == InitApp /\ probe = NoProbe

\* fetch(url) resolved, r.ok, r.json() parsed: setData(j); setYear(j.default_year)
FetchResolved ==
    /\ fetching
    /\ \E j \in Feeds :
          /\ data' = j
          /\ year' = j.default_year
    /\ fetching' = FALSE
    /\ UNCHANGED <<url, nowYear, page, searchBy, q, probe>>

\* fetch rejected, !r.ok, or r.json() rejected: setData({error})
FetchFailed ==
    /\ fetching
    /\ data' = ErrorData
    /\ fetching' = FALSE
    /\ UNCHANGED <<url, nowYear, year, page, searchBy, q, probe>>

\* the MenuItem buttons
SetPage ==
    /\ Rendered
    /\ \E id \in Pages : page' = id
    /\ UNCHANGED <<url, fetching, nowYear, data, year, searchBy, q, probe>>

\* the Year select: setYear(Number(e.target.value)), an option of years
SetYear ==
    /\ Rendered /\ page = "reported"
    /\ \E i \in 1..Len(years) : year' = Num(years[i])
    /\ UNCHANGED <<url, fetching, nowYear, data, page, searchBy, q, probe>>

\* the Search by select
SetSearchBy ==
    /\ Rendered /\ page = "reported"
    /\ \E v \in SearchBys : searchBy' = v
    /\ UNCHANGED <<url, fetching, nowYear, data, year, page, q, probe>>

\* the search input
SetQ ==
    /\ Rendered /\ page = "reported"
    /\ \E text \in Queries : q' = text
    /\ UNCHANGED <<url, fetching, nowYear, data, year, page, searchBy, probe>>

\* the Clear button, disabled while q is empty
ClearQ ==
    /\ Rendered /\ page = "reported"
    /\ q # <<>>
    /\ q' = <<>>
    /\ UNCHANGED <<url, fetching, nowYear, data, year, page, searchBy, probe>>

Next ==
    \/ FetchResolved
    \/ FetchFailed
    \/ SetPage
    \/ SetYear
    \/ SetSearchBy
    \/ SetQ
    \/ ClearQ

Spec == Init /\ [][Next]_vars

---------------------------------------------------------------------------
(* The classifier called on its own, over JavaScript values a bound can be *)

ProbeBounds ==
    { Undefined, Null, NaN, Str(<<"a", "b", "c">>), Str(<<"1", "9", "9", "0">>),
      Num(1990), Num(2005) }

ProbeYears == {-10000, 1989, 1990, 2005, 2006, 10000}

ProbeStations ==
    { Station(Str(<<"A", "A", "A">>), Undefined, Undefined, by, ey) :
        by \in ProbeBounds, ey \in ProbeBounds }

Classify ==
    /\ \E st \in ProbeStations, y \in ProbeYears :
          probe' = [called |-> TRUE, st |-> st, year |-> y,
                    active |-> isActive(st, Num(y)),
                    active_part_000 |-> isActive_part_000(st, Num(y)),
                    count |-> activeCountForYear(<<st>>, y)]
    /\ UNCHANGED ctl

SpecClassifier == Init /\ [][Classify]_vars

---------------------------------------------------------------------------
(* Claims about the classifier, under SpecClassifier *)

\* the station's bounds as the specification reads them: a present integer
\* bounds the years, anything else leaves that side unbounded
WithinBounds(st, y) ==
    /\ st.begin_year.k = "number" => st.begin_year.n <= y
    /\ st.end_year.k = "number" => y <= st.end_year.n

\* C1: isActive(station, year) is true exactly when lower <= year <= upper,
\* both ends inclusive, a missing bound being unbounded on its side.
C1_ActiveIffWithinBounds ==
    probe.called => (probe.active <=> WithinBounds(probe.st, probe.year))

\* C2: a station with neither begin_year nor end_year is active for every
\* year, the years beyond -9999 and 9999 included; activeCountForYear counts
\* it likewise.
C2_NoBoundsActiveEveryYear ==
    (/\ probe.called
     /\ probe.st.begin_year = Undefined
     /\ probe.st.end_year = Undefined)
    => (probe.active /\ probe.count = 1)

\* the station with every bound that is not a number removed
WithoutNonNumbers(st) ==
    [st EXCEPT !.begin_year = IF @.k = "number" THEN @ ELSE Undefined,
               !.end_year = IF @.k = "number" THEN @ ELSE Undefined]

\* C3: a bound that is not a number (missing, null, a string, NaN) is
\* classified exactly as an absent bound, by both versions of the classifier.
C3_NonNumberBoundIsAbsent ==
    probe.called =>
        /\ probe.active = isActive(WithoutNonNumbers(probe.st), Num(probe.year))
        /\ probe.active_part_000
             = isActive_part_000(WithoutNonNumbers(probe.st), Num(probe.year))

---------------------------------------------------------------------------
(* Claims about the filter, under Spec *)

\* the trimmed, lower-cased query
folded == ToLowerCase(Trim(q))

\* C4: a query that is empty after trimming returns exactly the station
\* collection, in its order, under every scope.
C4_EmptyQueryIsIdentity ==
    Trim(q) = <<>> => (filtered = stations /\ filtered_part_000 = stations)

C4_Witness ==
    /\ Rendered
    /\ q = <<" ">>
    /\ searchBy = "name"
    /\ Len(stations) = 2
    /\ stations[1] # stations[2]
    /\ filtered = stations

\* the lower-cased text of a field, an absent field being the empty string
FieldText(s, f) == IF s[f].k = "string" THEN ToLowerCase(s[f].s) ELSE <<>>

ScopeFields ==
    [all |-> {"station_id", "name", "country"}, station |-> {"station_id"},
     name |-> {"name"}, country |-> {"country"}]

InScope(s) == \E f \in ScopeFields[searchBy] : Includes(FieldText(s, f), folded)

\* C5: for a non-empty folded query the result is the subsequence, in the
\* original order, of the stations whose field in the scope (any of the
\* three fields under "all") contains the query.
C5_MatchesWithinScope ==
    folded # <<>> => filtered = SelectSeq(stations, InScope)

C5_Witness ==
    /\ Rendered
    /\ folded = <<"g", "h">>
    /\ searchBy = "station"
    /\ Len(filtered) = 1
    /\ Len(filteredOf(stations, q, "all")) = 2

\* C6: filtering the filtered collection again, with the same query and
\* scope, gives the filtered collection.
C6_FilterIdempotent == filteredOf(filtered, q, searchBy) = filtered

C6_Witness ==
    /\ Rendered
    /\ folded # <<>>
    /\ Len(filtered) = 1
    /\ Len(stations) = 2

---------------------------------------------------------------------------
(* Claims about the activity series, under Spec *)

\* data?.default_year ?? new Date().getUTCFullYear(), as a number
seriesEndYear == ToNumber(Nullish(data.default_year, Num(nowYear))).n

\* C7: an empty station collection yields one entry per year of the year
\* range, each with active = inactive = total = 0, not an empty series.
C7_EmptyCollectionZeroSeries ==
    (data.k = "feed" /\ Len(stations) = 0) =>
        LET series == stationActivitySeries
        IN  /\ Len(series) = Cardinality(startYear..seriesEndYear)
            /\ \A i \in 1..Len(series) :
                  /\ series[i].active = 0
                  /\ series[i].inactive = 0
                  /\ series[i].total = 0

\* C8: in every entry active + inactive = total = the number of stations,
\* and active is the number of stations isActive reports active that year.
C8_SeriesCountsAgree ==
    LET series == stationActivitySeries
    IN  \A i \in 1..Len(series) :
            /\ series[i].active + series[i].inactive = series[i].total
            /\ series[i].total = Len(stations)
            /\ series[i].active
                 = Cardinality({ j \in 1..Len(stations) :
                                   isActive(stations[j], Num(series[i].year)) })

C8_Witness ==
    /\ Rendered
    /\ LET series == stationActivitySeries
       IN  \E i \in 1..Len(series) :
              /\ series[i].active = 1
              /\ series[i].inactive = 1
              /\ \E j \in 1..Len(stations) :
                    stations[j].end_year = Num(series[i].year)

\* C9: the series has exactly one entry for each year from 1900 to the
\* feed's default_year, ascending, so endYear - 1900 + 1 entries.
C9_OneEntryPerYear ==
    (data.k = "feed" /\ data.default_year.k = "number") =>
        LET series == stationActivitySeries
        IN  /\ Len(series) = data.default_year.n - startYear + 1
            /\ \A i \in 1..Len(series) : series[i].year = startYear + i - 1

---------------------------------------------------------------------------
(* Claims about the counts, under Spec *)

\* C10: counts.total is the size of the filtered subset, and whenever a year
\* is selected counts.active is the number of filtered stations isActive
\* reports active for it and counts.active + counts.inactive = counts.total.
C10_CountsMatchFiltered ==
    /\ counts.total = Len(filtered)
    /\ year.k = "number" =>
          /\ counts.active = Cardinality({ i \in 1..Len(filtered) :
                                             isActive(filtered[i], year) })
          /\ counts.active + counts.inactive = counts.total

---------------------------------------------------------------------------
(* Claims about what the series depends on, under Spec *)

\* C11: once the feed is loaded, no change of the search query, the scope,
\* the selected year or the page changes the activity series.
C11_SeriesUnchangedByControls ==
    [][data.k = "feed" => stationActivitySeries' = stationActivitySeries]_vars

C11_Witness ==
    /\ Rendered
    /\ page = "stations"
    /\ searchBy # "all"
    /\ year # data.default_year
    /\ Len(filtered) < Len(stations)
    /\ counts.total # Len(stations)
    /\ Len(stationActivitySeries) > 0

====
